---- MODULE Spec2Model ----
(***************************************************************************)
(* Model of EnvironmentBuilder/ConvertIcon.py: the entry point (__main__), *)
(* svg_to_ico, and the two library calls it is glue for                    *)
(* (cairosvg.svg2png and PIL's Image.save with format='ICO'), together     *)
(* with the part of the filesystem the script reads and writes.            *)
(*                                                                         *)
(* Error kinds.  The script defines no exception types of its own; the     *)
(* model names each raised error after the entry of the documented         *)
(* taxonomy it corresponds to, and keeps the Python name where the         *)
(* taxonomy has no entry:                                                  *)
(*   "InputNotFound"    open() of a missing svg_path (FileNotFoundError),  *)
(*                      or the entry point's exit(1)                       *)
(*   "ReadError"        f.read() raising OSError                           *)
(*   "DecodeError"      svg2png rejecting the markup                       *)
(*   "InvalidSize"      svg2png failing to create a surface: cairo's       *)
(*                      CAIRO_STATUS_INVALID_SIZE, for a negative size or  *)
(*                      one above 32767                                    *)
(*   "IndexError"       images[0] on an empty list                         *)
(*   "OutputWriteError" Image.save failing to open or to write ico_path    *)
(* No line of the script itself checks sizes or raises.                    *)
(***************************************************************************)
EXTENDS Integers, Sequences, FiniteSets

\* longest size list a direct caller passes
MaxLen == 3

\* sizes a direct caller may put in the list: negative, zero, two ordinary
\* sizes, one beyond what the icon format holds, one beyond what the
\* rasterizer can allocate
SizeChoices == {-16, 0, 16, 32, 512, 40000}

\* the width = height the vector document itself declares
IntrinsicDims == {24}

\* channel layouts Image.open may report for the rasterizer's PNG
Modes == {"RGBA", "RGB", "L"}

DEFAULT_SVG == "Resources/TestTree.svg"
ALT_SVG == "../TestTree.svg"
ICO == "Resources/TestTree.ico"
SvgPaths == {DEFAULT_SVG, ALT_SVG}

NoFile == "absent"
SVG_OK == "valid markup"
SVG_BAD == "not markup"
OLD_ICO == "previous icon"
PARTIAL == "truncated icon"
NEW_ICO == "encoded icon"

DefaultSizes == <<16, 32, 48, 64, 128, 256>>

VARIABLES
    entry,      \* "main": run as a script; "call": svg_to_ico called directly
    fs,         \* path -> content of the file there
    fs0,        \* fs when the run started
    intrinsic,  \* the document's own width = height
    outDir,     \* parent directory of ico_path: "ok", "missing", "unwritable"
    pc,         \* position in the script
    svg_path,   \* the variable / parameter svg_path
    sizes,      \* the parameter sizes
    svg_data,   \* bytes read from svg_path
    images,     \* the list images
    idx,        \* number of sizes the for loop has taken
    err,        \* the error the run ended with, "none" if none
    inHandle,   \* the file object f of the with block
    outHandle,  \* the file object Image.save opens for ico_path
    created,    \* Image.save created ico_path (it did not exist)
    probes,     \* paths given to os.path.exists, in order
    called,     \* svg_to_ico has been entered
    rasterCalls,\* calls of cairosvg.svg2png so far
    rawModes,   \* mode of each image as Image.open returned it
    handed,     \* the images given to Image.save
    saveSizes,  \* the sizes= argument given to Image.save
    container   \* the images embedded in the file at ico_path once it is NEW_ICO

vars == <<entry, fs, fs0, intrinsic, outDir, pc, svg_path, sizes, svg_data,
          images, idx, err, inHandle, outHandle, created, probes, called,
          rasterCalls, rawModes, handed, saveSizes, container>>

env == <<entry, fs0, intrinsic, outDir, sizes>>

----------------------------------------------------------------------------
\* Helpers

RECURSIVE SeqsUpTo(_, _)
SeqsUpTo(S, n) ==
    IF n = 0 THEN {<<>>}
    ELSE LET shorter == SeqsUpTo(S, n - 1)
         IN shorter \cup {Append(s, x) : s \in {t \in shorter : Len(t) = n - 1}, x \in S}

SizeLists == SeqsUpTo(SizeChoices, MaxLen)

\* lexicographic order on (width, height), the order Python sorts tuples in
TupleLess(a, b) == a[1] < b[1] \/ (a[1] = b[1] /\ a[2] < b[2])

RECURSIVE SortedTuples(_)
SortedTuples(S) ==
    IF S = {} THEN <<>>
    ELSE LET m == CHOOSE x \in S : \A y \in S \ {x} : TupleLess(x, y)
         IN <<m>> \o SortedTuples(S \ {m})

Terminal == pc \in {"returned", "raised", "exit"}

----------------------------------------------------------------------------
\* cairosvg.svg2png(bytestring=svg_data, output_width=size, output_height=size)
\* followed by Image.open: markup that does not parse is rejected; a size
\* that is negative or above 32767 cannot become a surface; a zero size counts
\* as "not given" and the document's own size is used; otherwise the image
\* is size x size.

RasterRejects(data, size) == data # SVG_OK \/ size < 0 \/ size > 32767

RasterError(data, size) == IF data # SVG_OK THEN "DecodeError" ELSE "InvalidSize"

RasterDim(size) == IF size = 0 THEN intrinsic ELSE size

\* lines 40-41
NormalizeModeKeep(mode) == mode

NormalizeMode(mode) == IF mode # "RGBA" THEN "RGBA" ELSE mode

\* lines 34-41
MakeImage(size, mode) ==
    [width |-> RasterDim(size), height |-> RasterDim(size), mode |-> NormalizeMode(mode)]

----------------------------------------------------------------------------
\* PIL's ICO writer, as its documentation states it: of the requested sizes,
\* "any sizes bigger than the original size or 256 will be ignored"; the
\* sizes are written once each in ascending order; append_images supplies
\* the image for a size ("their use is determined by the size of each image").

IcoKeeps(primary, s) ==
    /\ s[1] <= primary.width
    /\ s[2] <= primary.height
    /\ s[1] <= 256
    /\ s[2] <= 256

IcoFrames(imgs, szs) ==
    LET primary == imgs[1]
        kept == {s \in {szs[k] : k \in 1..Len(szs)} : IcoKeeps(primary, s)}
        order == SortedTuples(kept)
        provided(s) == imgs[CHOOSE k \in 1..Len(imgs) :
                              /\ <<imgs[k].width, imgs[k].height>> = s
                              /\ \A j \in 1..(k - 1) : <<imgs[j].width, imgs[j].height>> # s]
    IN [k \in 1..Len(order) |-> provided(order[k])]

----------------------------------------------------------------------------
Init ==
    /\ entry \in {"main", "call"}
    /\ intrinsic \in IntrinsicDims
    /\ outDir \in {"ok", "missing", "unwritable"}
    /\ fs \in [SvgPaths \cup {ICO} -> {NoFile, SVG_OK, SVG_BAD, OLD_ICO}]
    /\ \A p \in SvgPaths : fs[p] \in {NoFile, SVG_OK, SVG_BAD}
    /\ fs[ICO] \in {NoFile, OLD_ICO}
    /\ outDir = "missing" => fs[ICO] = NoFile
    /\ fs0 = fs
    /\ IF entry = "main"
       THEN /\ pc = "main62"
            /\ svg_path = DEFAULT_SVG
            /\ sizes = DefaultSizes
       ELSE /\ pc = "open26"
            /\ svg_path = DEFAULT_SVG
            /\ fs[ALT_SVG] = NoFile
            /\ sizes \in SizeLists
    /\ called = (entry = "call")
    /\ svg_data = NoFile
    /\ images = <<>>
    /\ idx = 0
    /\ err = "none"
    /\ inHandle = "none"
    /\ outHandle = "none"
    /\ created = FALSE
    /\ probes = <<>>
    /\ rasterCalls = 0
    /\ rawModes = <<>>
    /\ handed = <<>>
    /\ saveSizes = <<>>
    /\ container = <<>>

----------------------------------------------------------------------------
\* __main__

\* line 62-64
MainProbeDefaultNoFallback ==
    /\ pc = "main62"
    /\ probes' = Append(probes, svg_path)
    /\ pc' = "main66"
    /\ UNCHANGED <<env, fs, svg_path, svg_data, images, idx, err, inHandle,
                   outHandle, created, called, rasterCalls, rawModes, handed, saveSizes, container>>

MainProbeDefault ==
    /\ pc = "main62"
    /\ probes' = Append(probes, svg_path)
    /\ svg_path' = IF fs[svg_path] = NoFile THEN ALT_SVG ELSE svg_path
    /\ pc' = "main66"
    /\ UNCHANGED <<env, fs, svg_data, images, idx, err, inHandle,
                   outHandle, created, called, rasterCalls, rawModes, handed, saveSizes, container>>

\* line 66-67
MainConvert ==
    /\ pc = "main66"
    /\ fs[svg_path] # NoFile
    /\ probes' = Append(probes, svg_path)
    /\ called' = TRUE
    /\ pc' = "open26"
    /\ UNCHANGED <<env, fs, svg_path, svg_data, images, idx, err, inHandle,
                   outHandle, created, rasterCalls, rawModes, handed, saveSizes, container>>

\* line 66, 68-70
MainNotFound ==
    /\ pc = "main66"
    /\ fs[svg_path] = NoFile
    /\ probes' = Append(probes, svg_path)
    /\ err' = "InputNotFound"
    /\ pc' = "exit"
    /\ UNCHANGED <<env, fs, svg_path, svg_data, images, idx, inHandle,
                   outHandle, created, called, rasterCalls, rawModes, handed, saveSizes, container>>

----------------------------------------------------------------------------
\* svg_to_ico

\* an exception leaving svg_to_ico: nothing catches it, the locals go with the frame
Raise(e) ==
    /\ err' = e
    /\ pc' = "raised"
    /\ svg_data' = NoFile
    /\ images' = <<>>

\* line 26, open() succeeding
OpenInput ==
    /\ pc = "open26"
    /\ fs[svg_path] # NoFile
    /\ inHandle' = "open"
    /\ pc' = "read27"
    /\ UNCHANGED <<env, fs, svg_path, svg_data, images, idx, err, outHandle,
                   created, probes, called, rasterCalls, rawModes, handed, saveSizes, container>>

\* line 26, open() of a missing file
OpenInputMissingIgnored ==
    /\ pc = "open26"
    /\ fs[svg_path] = NoFile
    /\ pc' = "loop31"
    /\ UNCHANGED <<env, fs, svg_path, svg_data, images, idx, err, inHandle, outHandle,
                   created, probes, called, rasterCalls, rawModes, handed, saveSizes, container>>

OpenInputMissing ==
    /\ pc = "open26"
    /\ fs[svg_path] = NoFile
    /\ Raise("InputNotFound")
    /\ UNCHANGED <<env, fs, svg_path, idx, inHandle, outHandle,
                   created, probes, called, rasterCalls, rawModes, handed, saveSizes, container>>

\* line 27 and the end of the with block
ReadInputLeak ==
    /\ pc = "read27"
    /\ svg_data' = fs[svg_path]
    /\ pc' = "loop31"
    /\ UNCHANGED <<env, fs, svg_path, images, idx, err, inHandle, outHandle,
                   created, probes, called, rasterCalls, rawModes, handed, saveSizes, container>>

ReadInput ==
    /\ pc = "read27"
    /\ svg_data' = fs[svg_path]
    /\ inHandle' = "closed"
    /\ pc' = "loop31"
    /\ UNCHANGED <<env, fs, svg_path, images, idx, err, outHandle,
                   created, probes, called, rasterCalls, rawModes, handed, saveSizes, container>>

\* line 27 raising: the with block closes f on the way out
ReadInputFail ==
    /\ pc = "read27"
    /\ inHandle' = "closed"
    /\ Raise("ReadError")
    /\ UNCHANGED <<env, fs, svg_path, idx, outHandle,
                   created, probes, called, rasterCalls, rawModes, handed, saveSizes, container>>

\* lines 31-43, one pass of the loop
Rasterize ==
    /\ pc = "loop31"
    /\ idx < Len(sizes)
    /\ ~RasterRejects(svg_data, sizes[idx + 1])
    /\ \E mode \in Modes :
          /\ rawModes' = Append(rawModes, mode)
          /\ images' = Append(images, MakeImage(sizes[idx + 1], mode))
    /\ idx' = idx + 1
    /\ rasterCalls' = rasterCalls + 1
    /\ UNCHANGED <<env, fs, pc, svg_path, svg_data, err, inHandle, outHandle,
                   created, probes, called, handed, saveSizes, container>>

\* line 34 raising, swallowed: the loop goes on with the next size
RasterizeFailSkip ==
    /\ pc = "loop31"
    /\ idx < Len(sizes)
    /\ RasterRejects(svg_data, sizes[idx + 1])
    /\ idx' = idx + 1
    /\ rasterCalls' = rasterCalls + 1
    /\ UNCHANGED <<env, fs, pc, svg_path, svg_data, images, err, inHandle, outHandle,
                   created, probes, called, rawModes, handed, saveSizes, container>>

\* line 34 raising
RasterizeFail ==
    /\ pc = "loop31"
    /\ idx < Len(sizes)
    /\ RasterRejects(svg_data, sizes[idx + 1])
    /\ rasterCalls' = rasterCalls + 1
    /\ Raise(RasterError(svg_data, sizes[idx + 1]))
    /\ UNCHANGED <<env, fs, svg_path, idx, inHandle, outHandle,
                   created, probes, called, rawModes, handed, saveSizes, container>>

\* line 46, images[0] of an empty list
SaveNoImages ==
    /\ pc = "loop31"
    /\ idx = Len(sizes)
    /\ images = <<>>
    /\ Raise("IndexError")
    /\ UNCHANGED <<env, fs, svg_path, idx, inHandle, outHandle,
                   created, probes, called, rasterCalls, rawModes, handed, saveSizes, container>>

SaveArgs ==
    /\ handed' = images
    /\ saveSizes' = [k \in 1..Len(images) |-> <<images[k].width, images[k].height>>]

\* lines 46-51: Image.save opens ico_path for writing, which creates or empties it
SaveOpen ==
    /\ pc = "loop31"
    /\ idx = Len(sizes)
    /\ images # <<>>
    /\ outDir = "ok"
    /\ SaveArgs
    /\ created' = (fs[ICO] = NoFile)
    /\ fs' = [fs EXCEPT ![ICO] = PARTIAL]
    /\ outHandle' = "open"
    /\ pc' = "write"
    /\ UNCHANGED <<env, svg_path, svg_data, images, idx, err, inHandle,
                   probes, called, rasterCalls, rawModes, container>>

\* lines 46-51 with the failure to open ico_path swallowed
SaveOpenFailIgnored ==
    /\ pc = "loop31"
    /\ idx = Len(sizes)
    /\ images # <<>>
    /\ outDir # "ok"
    /\ SaveArgs
    /\ pc' = "returned"
    /\ svg_data' = NoFile
    /\ images' = <<>>
    /\ UNCHANGED <<env, fs, svg_path, idx, err, inHandle, outHandle,
                   created, probes, called, rasterCalls, rawModes, container>>

\* lines 46-51: Image.save cannot open ico_path
SaveOpenFail ==
    /\ pc = "loop31"
    /\ idx = Len(sizes)
    /\ images # <<>>
    /\ outDir # "ok"
    /\ SaveArgs
    /\ Raise("OutputWriteError")
    /\ UNCHANGED <<env, fs, svg_path, idx, inHandle, outHandle,
                   created, probes, called, rasterCalls, rawModes, container>>

\* lines 46-54: the container is written and closed, svg_to_ico returns True
SaveWrite ==
    /\ pc = "write"
    /\ fs' = [fs EXCEPT ![ICO] = NEW_ICO]
    /\ container' = IcoFrames(handed, saveSizes)
    /\ outHandle' = "closed"
    /\ pc' = "returned"
    /\ svg_data' = NoFile
    /\ images' = <<>>
    /\ UNCHANGED <<env, svg_path, idx, err, inHandle,
                   created, probes, called, rasterCalls, rawModes, handed, saveSizes>>

\* lines 46-51: a write fails part way (the disk fills); Image.save closes the
\* file and, in the versions that do so, removes it if it had created it
SaveWriteFail ==
    /\ pc = "write"
    /\ \E removed \in {TRUE, FALSE} :
          /\ removed => created
          /\ fs' = [fs EXCEPT ![ICO] = IF removed THEN NoFile ELSE PARTIAL]
    /\ outHandle' = "closed"
    /\ Raise("OutputWriteError")
    /\ UNCHANGED <<env, svg_path, idx, inHandle,
                   created, probes, called, rasterCalls, rawModes, handed, saveSizes, container>>

Next ==
    \/ MainProbeDefault
    \/ MainConvert
    \/ MainNotFound
    \/ OpenInput
    \/ OpenInputMissing
    \/ ReadInput
    \/ ReadInputFail
    \/ Rasterize
    \/ RasterizeFail
    \/ SaveNoImages
    \/ SaveOpen
    \/ SaveOpenFail
    \/ SaveWrite
    \/ SaveWriteFail

Spec == Init /\ [][Next]_vars

----------------------------------------------------------------------------
\* Properties

InputOk == fs0[svg_path] = SVG_OK

InputMissing ==
    IF entry = "main"
    THEN fs0[DEFAULT_SVG] = NoFile /\ fs0[ALT_SVG] = NoFile
    ELSE fs0[svg_path] = NoFile

ValidSizes == \A k \in 1..Len(sizes) : sizes[k] > 0 /\ sizes[k] <= 256

DistinctSizes == \A j, k \in 1..Len(sizes) : j # k => sizes[j] # sizes[k]

\* the run met no fault of the disk
NoDiskFault == err \notin {"ReadError", "OutputWriteError"}

\* C1: after a successful svg_to_ico on valid markup and a non-empty list of
\* valid, distinct sizes, the container holds exactly Len(sizes) images, the
\* k-th of them sizes[k] x sizes[k].
C1_ContainerMatchesSizes ==
    (pc = "returned" /\ InputOk /\ sizes # <<>> /\ ValidSizes /\ DistinctSizes) =>
        /\ fs[ICO] = NEW_ICO
        /\ Len(container) = Len(sizes)
        /\ \A k \in 1..Len(sizes) :
              k <= Len(container) =>
                  container[k].width = sizes[k] /\ container[k].height = sizes[k]

\* C2: when the input path (and, run as a script, the alternate path too)
\* does not exist, the run ends with InputNotFound, the rasterizer is never
\* called and no file is created or changed.
C2_InputNotFound ==
    InputMissing =>
        /\ rasterCalls = 0
        /\ fs = fs0
        /\ inHandle = "none"
        /\ Terminal => err = "InputNotFound"

C2_Witness ==
    /\ InputMissing
    /\ called
    /\ pc = "raised"
    /\ err = "InputNotFound"
    /\ sizes # <<>>

\* C3: svg_to_ico given an empty size list ends with InvalidSize without
\* having opened the input or touched the output.
C3_EmptySizesRejected ==
    (Terminal /\ called /\ sizes = <<>> /\ InputOk /\ outDir = "ok" /\ NoDiskFault) =>
        /\ err = "InvalidSize"
        /\ inHandle = "none"
        /\ fs = fs0

\* C4: svg_to_ico given a size that is not positive, or is beyond the upper
\* bound of the implementation (the rasterizer's 32767), ends with
\* InvalidSize.
C4_BadSizeRejected ==
    (Terminal /\ called /\ InputOk /\ outDir = "ok" /\ NoDiskFault
        /\ \E k \in 1..Len(sizes) : sizes[k] <= 0 \/ sizes[k] > 32767) =>
        err = "InvalidSize"

\* C5: whenever the run has ended, ico_path holds either what it held before
\* the run or the fully encoded container.
C5_AtomicWrite ==
    Terminal => (fs[ICO] = fs0[ICO] \/ (fs[ICO] = NEW_ICO /\ pc = "returned"))

\* C6: with the parent directory of ico_path missing or unwritable the run
\* fails and leaves every file as it was; when it fails with OutputWriteError
\* the input has been read and closed and every size rasterized; and it
\* does fail with OutputWriteError once every size of a non-empty list has
\* been rasterized.
C6_OutputWriteError ==
    (Terminal /\ called /\ outDir # "ok") =>
        /\ err # "none"
        /\ fs = fs0
        /\ err = "OutputWriteError" =>
              /\ inHandle = "closed"
              /\ rasterCalls = Len(sizes)
              /\ Len(rawModes) = Len(sizes)
              /\ Len(handed) = Len(sizes)
        /\ (sizes # <<>> /\ Len(rawModes) = Len(sizes)) => err = "OutputWriteError"

C6_Witness ==
    /\ pc = "raised"
    /\ outDir = "missing"
    /\ err = "OutputWriteError"
    /\ Len(sizes) >= 2
    /\ rasterCalls = Len(sizes)

\* C7: every image in the list images, every image given to Image.save and
\* every image in the container is RGBA, whatever mode the rasterizer's
\* output had.
C7_AllRGBA ==
    /\ \A k \in 1..Len(images) : images[k].mode = "RGBA"
    /\ \A k \in 1..Len(handed) : handed[k].mode = "RGBA"
    /\ \A k \in 1..Len(container) : container[k].mode = "RGBA"

C7_Witness ==
    /\ pc = "returned"
    /\ fs[ICO] = NEW_ICO
    /\ Len(container) >= 2
    /\ \E k \in 1..Len(rawModes) :
          /\ rawModes[k] # "RGBA"
          /\ \E j \in 1..Len(container) : container[j] = handed[k]

\* C8: run as a script, only the default and the alternate path are ever
\* probed; the alternate only when the default is missing, and then at most
\* once after the default; svg_to_ico is given the default whenever the
\* default exists, the alternate exactly when the default is missing and the
\* alternate exists, and is not called at all, the run ending with
\* InputNotFound, exactly when both are missing.
C8_PathFallback ==
    entry = "main" =>
        /\ \A k \in 1..Len(probes) : probes[k] \in {DEFAULT_SVG, ALT_SVG}
        /\ Len(probes) >= 1 => probes[1] = DEFAULT_SVG
        /\ (\E k \in 1..Len(probes) : probes[k] = ALT_SVG) => fs0[DEFAULT_SVG] = NoFile
        /\ Cardinality({k \in 1..Len(probes) : probes[k] = ALT_SVG}) <= 1
        /\ fs0[DEFAULT_SVG] # NoFile => svg_path = DEFAULT_SVG
        /\ called =>
              (svg_path = ALT_SVG <=>
                  (fs0[DEFAULT_SVG] = NoFile /\ fs0[ALT_SVG] # NoFile))
        /\ pc \notin {"main62", "main66"} =>
              /\ ~called <=> (fs0[DEFAULT_SVG] = NoFile /\ fs0[ALT_SVG] = NoFile)
              /\ ~called => (pc = "exit" /\ err = "InputNotFound")

C8_Witness ==
    /\ entry = "main"
    /\ called
    /\ svg_path = ALT_SVG
    /\ pc = "returned"

\* C9: once the rasterizer has been called on bytes that are not markup, the
\* run has ended with DecodeError raised out of svg_to_ico, that call was the
\* only call of the rasterizer, nothing was given to Image.save, the output
\* was never opened and no file has changed.
C9_DecodeErrorPropagates ==
    (called /\ fs0[svg_path] = SVG_BAD /\ rasterCalls > 0) =>
        /\ pc = "raised"
        /\ err = "DecodeError"
        /\ rasterCalls = 1
        /\ rawModes = <<>>
        /\ handed = <<>>
        /\ outHandle = "none"
        /\ fs = fs0

C9_Witness ==
    /\ err = "DecodeError"
    /\ pc = "raised"
    /\ Len(sizes) >= 2
    /\ outDir = "ok"

\* C10: whenever the run has ended neither file object is open and the bytes
\* read and the images are no longer held; and the input file object is closed
\* from before the first call of the rasterizer on.
C10_ResourcesReleased ==
    /\ Terminal =>
          /\ inHandle # "open"
          /\ outHandle # "open"
          /\ images = <<>>
          /\ svg_data = NoFile
    /\ (rasterCalls > 0 \/ pc \in {"loop31", "write"}) => inHandle = "closed"

C10_Witness ==
    /\ pc = "raised"
    /\ err = "OutputWriteError"
    /\ inHandle = "closed"
    /\ outHandle = "closed"
    /\ rasterCalls >= 2

====
